---- MODULE Spec2Model ----
(***************************************************************************)
(* Button.jsx: a forwardRef function component.  One render pass takes the *)
(* caller's props, destructures them with defaults, resolves the class     *)
(* string and the disabled flag through two useMemo cells, and returns a   *)
(* <button> element with four child expressions.                           *)
(*                                                                         *)
(* JavaScript values are records [type, val]; val is a sequence of TLA+    *)
(* strings.  A JavaScript string is the sequence of its atoms: an atom is  *)
(* one space character (SP) or a maximal run of non-space characters, so   *)
(* "px-2 py-1" is <<"px-2", " ", "py-1">> and two adjacent SP atoms are a  *)
(* double space.                                                           *)
(***************************************************************************)
EXTENDS Naturals, Sequences, FiniteSets, TLC

VARIABLES
    props,     \* the props object the parent passes to the next/latest render
    hooks,     \* the instance's hook cells: <<>> before mount, else two memo cells
    element,   \* the element returned by the latest render pass
    reused     \* per memo cell, whether the latest pass returned the cached value

vars == <<props, hooks, element, reused>>

----------------------------------------------------------------------------
(* JavaScript values *)

SP == " "

JSUndefined == [type |-> "undefined", val |-> <<>>]
JSNull == [type |-> "null", val |-> <<>>]
JSBool(b) == [type |-> "boolean", val |-> IF b THEN <<"true">> ELSE <<"false">>]
JSString(atoms) == [type |-> "string", val |-> atoms]
JSNumber(digits) == [type |-> "number", val |-> <<digits>>]
JSFunction(name) == [type |-> "function", val |-> <<name>>]
JSObject(class) == [type |-> "object", val |-> <<class>>]
JSElement(desc) == [type |-> "element", val |-> desc]

\* the words ws separated by single spaces, as a string's atoms
RECURSIVE Text(_)
Text(ws) ==
    IF ws = <<>> THEN <<>>
    ELSE IF Len(ws) = 1 THEN ws
    ELSE <<Head(ws), SP>> \o Text(Tail(ws))

\* ToBoolean: undefined, null, false, "", 0 and NaN are falsy
ToBoolean(v) ==
    CASE v.type \in {"undefined", "null"} -> FALSE
      [] v.type = "boolean" -> v.val = <<"true">>
      [] v.type = "string" -> v.val # <<>>
      [] v.type = "number" -> v.val \notin {<<"0">>, <<"NaN">>}
      [] OTHER -> TRUE

\* JSToString, as Array.prototype.join applies it to an element
JSToString(v) ==
    CASE v.type \in {"undefined", "null"} -> <<>>
      [] v.type = "function" ->
            <<"function", SP, v.val[1] \o "()", SP, "{", SP, "[native", SP, "code]", SP, "}">>
      [] v.type = "object" -> <<"[object", SP, v.val[1] \o "]">>
      [] OTHER -> v.val

JSNot(v) == JSBool(~ToBoolean(v))
JSAnd(a, b) == IF ToBoolean(a) THEN b ELSE a
JSOr(a, b) == IF ToBoolean(a) THEN a ELSE b

\* Array.prototype.join(sep) over a sequence of values
RECURSIVE Join(_, _)
Join(vs, sep) ==
    IF vs = <<>> THEN <<>>
    ELSE IF Len(vs) = 1 THEN JSToString(vs[1])
    ELSE JSToString(vs[1]) \o <<sep>> \o Join(Tail(vs), sep)

----------------------------------------------------------------------------
(* Module-level constants *)

VARIANT_STYLES ==
    [primary |-> Text(<<"bg-blue-600", "text-white", "hover:bg-blue-700",
                        "focus:ring-blue-500", "active:bg-blue-800">>),
     secondary |-> Text(<<"bg-gray-600", "text-white", "hover:bg-gray-700",
                          "focus:ring-gray-500", "active:bg-gray-800">>),
     success |-> Text(<<"bg-green-600", "text-white", "hover:bg-green-700",
                        "focus:ring-green-500", "active:bg-green-800">>),
     danger |-> Text(<<"bg-red-600", "text-white", "hover:bg-red-700",
                       "focus:ring-red-500", "active:bg-red-800">>),
     warning |-> Text(<<"bg-yellow-500", "text-white", "hover:bg-yellow-600",
                        "focus:ring-yellow-400", "active:bg-yellow-700">>),
     info |-> Text(<<"bg-cyan-600", "text-white", "hover:bg-cyan-700",
                     "focus:ring-cyan-500", "active:bg-cyan-800">>),
     ghost |-> Text(<<"bg-transparent", "border-2", "border-gray-300", "text-gray-700",
                      "hover:bg-gray-100", "focus:ring-gray-500", "active:bg-gray-200">>),
     link |-> Text(<<"bg-transparent", "text-blue-600", "hover:text-blue-800",
                     "hover:underline", "focus:ring-blue-500", "p-0">>),
     outline |-> Text(<<"bg-transparent", "border-2", "border-blue-600", "text-blue-600",
                        "hover:bg-blue-50", "focus:ring-blue-500", "active:bg-blue-100">>)]

SIZE_STYLES ==
    [xs |-> Text(<<"px-2", "py-1", "text-xs", "gap-1">>),
     sm |-> Text(<<"px-3", "py-1.5", "text-sm", "gap-1.5">>),
     md |-> Text(<<"px-4", "py-2", "text-base", "gap-2">>),
     lg |-> Text(<<"px-6", "py-3", "text-lg", "gap-2.5">>),
     xl |-> Text(<<"px-8", "py-4", "text-xl", "gap-3">>)]

BASE_STYLES ==
    Text(<<"inline-flex", "items-center", "justify-center", "font-medium", "rounded-lg",
           "transition-all", "duration-200", "focus:outline-none", "focus:ring-2",
           "focus:ring-offset-2", "disabled:opacity-50", "disabled:cursor-not-allowed">>)

\* Both tables are object literals, so they inherit from Object.prototype;
\* these are the inherited members the model keeps.
ObjectPrototype ==
    [constructor |-> JSFunction("Object"),
     toString |-> JSFunction("toString"),
     valueOf |-> JSFunction("valueOf"),
     hasOwnProperty |-> JSFunction("hasOwnProperty"),
     __proto__ |-> JSObject("Object")]

\* table[key]: the own property, else the inherited one, else undefined
GetProperty(table, key) ==
    LET k == Join(<<key>>, SP)
        name == IF Len(k) = 1 THEN k[1] ELSE ""
    IN  IF key.type \in {"undefined", "null"} THEN JSUndefined
        ELSE IF name \in DOMAIN table THEN JSString(table[name])
        ELSE IF name \in DOMAIN ObjectPrototype THEN ObjectPrototype[name]
        ELSE JSUndefined

Spinner == JSElement(<<"Spinner">>)


----------------------------------------------------------------------------
(* The Button function component *)

\* a parameter default applies when the prop is undefined (absent)
Default(v, d) == IF v = JSUndefined THEN d ELSE v

\* the parameter pattern without className, type and disabled
DestructuredNamesForgetful ==
    {"variant", "size", "fullWidth", "loading", "leftIcon", "rightIcon", "children"}

\* the names the parameter pattern takes out of the props object
DestructuredNames ==
    {"variant", "size", "fullWidth", "loading", "disabled", "leftIcon", "rightIcon",
     "children", "className", "type"}

\* ...props: every other property the caller gave (an absent one is undefined here)
RestProps(raw) ==
    [n \in {k \in DOMAIN raw : k \notin DestructuredNames /\ raw[k] # JSUndefined}
        |-> raw[n]]

\* the parameter pattern of the render function
Destructure(raw) ==
    [variant |-> Default(raw.variant, JSString(<<"primary">>)),
     size |-> Default(raw.size, JSString(<<"md">>)),
     fullWidth |-> Default(raw.fullWidth, JSBool(FALSE)),
     loading |-> Default(raw.loading, JSBool(FALSE)),
     disabled |-> Default(raw.disabled, JSBool(FALSE)),
     leftIcon |-> Default(raw.leftIcon, JSNull),
     rightIcon |-> Default(raw.rightIcon, JSNull),
     children |-> raw.children,
     className |-> Default(raw.className, JSString(<<>>)),
     type |-> Default(raw.type, JSString(<<"button">>)),
     props |-> RestProps(raw)]

\* the fragments in another order: size before variant
ButtonClassNameSizeFirst(variant, size, fullWidth, className) ==
    LET classes == <<JSString(BASE_STYLES),
                     GetProperty(SIZE_STYLES, size),
                     GetProperty(VARIANT_STYLES, variant),
                     IF ToBoolean(fullWidth) THEN JSString(<<"w-full">>) ELSE JSString(<<>>),
                     className>>
    IN  JSString(Join(SelectSeq(classes, ToBoolean), SP))

\* the callback of the first useMemo
ButtonClassName(variant, size, fullWidth, className) ==
    LET classes == <<JSString(BASE_STYLES),
                     GetProperty(VARIANT_STYLES, variant),
                     GetProperty(SIZE_STYLES, size),
                     IF ToBoolean(fullWidth) THEN JSString(<<"w-full">>) ELSE JSString(<<>>),
                     className>>
    IN  JSString(Join(SelectSeq(classes, ToBoolean), SP))

\* the flag without the loading input
IsDisabledIgnoringLoading(disabled, loading) == disabled

\* the callback of the second useMemo
IsDisabled(disabled, loading) == JSOr(disabled, loading)

\* a dependency array that leaves className out
ClassNameDepsWithoutClassName(p) == <<p.variant, p.size, p.fullWidth>>

\* the dependency arrays of the two useMemo calls
ClassNameDeps(p) == <<p.variant, p.size, p.fullWidth, p.className>>
DisabledDeps(p) == <<p.disabled, p.loading>>

\* useMemo on cell i: the first render computes; a later render returns the
\* cached cell when every dependency is Object.is-equal to the cached one
UseMemo(prevHooks, i, fresh, deps) ==
    IF prevHooks # <<>> /\ prevHooks[i].deps = deps
    THEN prevHooks[i]
    ELSE [deps |-> deps, value |-> fresh]

\* <span>{child}</span> at the JSX position named slot
Span(slot, child) == JSElement(<<"span", slot, child.type>> \o child.val)

\* the icons without the loading guard
ChildrenIconsWhileLoading(loading, leftIcon, children, rightIcon) ==
    <<JSAnd(loading, Spinner),
      JSAnd(leftIcon, Span("leftIcon", leftIcon)),
      Span("children", children),
      JSAnd(rightIcon, Span("rightIcon", rightIcon))>>

\* the children slot only when there are children
ChildrenWhenGiven(loading, leftIcon, children, rightIcon) ==
    <<JSAnd(loading, Spinner),
      JSAnd(JSAnd(JSNot(loading), leftIcon), Span("leftIcon", leftIcon)),
      JSAnd(children, Span("children", children)),
      JSAnd(JSAnd(JSNot(loading), rightIcon), Span("rightIcon", rightIcon))>>

\* the children slot only when not loading
ChildrenSpinnerAlone(loading, leftIcon, children, rightIcon) ==
    <<JSAnd(loading, Spinner),
      JSAnd(JSAnd(JSNot(loading), leftIcon), Span("leftIcon", leftIcon)),
      JSAnd(JSNot(loading), Span("children", children)),
      JSAnd(JSAnd(JSNot(loading), rightIcon), Span("rightIcon", rightIcon))>>

\* the four child expressions of <button>
Children(loading, leftIcon, children, rightIcon) ==
    <<JSAnd(loading, Spinner),
      JSAnd(JSAnd(JSNot(loading), leftIcon), Span("leftIcon", leftIcon)),
      Span("children", children),
      JSAnd(JSAnd(JSNot(loading), rightIcon), Span("rightIcon", rightIcon))>>

\* the attributes of <button>: type, className, disabled, then {...props},
\* a later attribute replacing an earlier one of the same name
Attributes(type, buttonClassName, isDisabled, rest) ==
    rest @@ [type |-> type, className |-> buttonClassName, disabled |-> isDisabled]

\* one call of the render function with props raw on an instance whose hook
\* cells are prevHooks
Render(raw, prevHooks) ==
    LET p == Destructure(raw)
        cell1 == UseMemo(prevHooks, 1,
                         ButtonClassName(p.variant, p.size, p.fullWidth, p.className),
                         ClassNameDeps(p))
        cell2 == UseMemo(prevHooks, 2, IsDisabled(p.disabled, p.loading), DisabledDeps(p))
    IN  [hooks |-> <<cell1, cell2>>,
         reused |-> <<prevHooks # <<>> /\ cell1 = prevHooks[1],
                      prevHooks # <<>> /\ cell2 = prevHooks[2]>>,
         element |-> [type |-> "button",
                      props |-> Attributes(p.type, cell1.value, cell2.value, p.props),
                      children |-> Children(p.loading, p.leftIcon, p.children, p.rightIcon)]]

\* what React puts in the DOM for a child value: elements, numbers and
\* non-empty strings; booleans, null, undefined and "" produce nothing
Renders(v) == v.type \in {"element", "number"} \/ (v.type = "string" /\ v.val # <<>>)

\* the composed content of an element: the children that produce output
Content(el) == SelectSeq(el.children, Renders)

----------------------------------------------------------------------------
(* The props a caller can pass *)

\* the longest className the exhaustive configurations hold, in atoms
MaxClassNameLen == 2

Absent == JSUndefined
Word(w) == JSString(<<w>>)
Icon(name) == JSElement(<<"svg", name>>)

\* the props object of <Button ...>; "id" and "title" stand for the
\* attributes the component does not name
Config(variant, size, fullWidth, loading, disabled, leftIcon, rightIcon, children, className, type, id, title) ==
    [variant |-> variant, size |-> size, fullWidth |-> fullWidth, loading |-> loading,
     disabled |-> disabled, leftIcon |-> leftIcon, rightIcon |-> rightIcon,
     children |-> children, className |-> className, type |-> type,
     id |-> id, title |-> title]

\* the attributes of Config that the parameter pattern does not name
PassthroughNames == {"id", "title"}

KnownVariants == DOMAIN VARIANT_STYLES
KnownSizes == DOMAIN SIZE_STYLES

\* every string of at most MaxClassNameLen atoms over a space and a word
ClassNames ==
    {JSString(s) : s \in UNION {[1..n -> {SP, "m-2"}] : n \in 0..MaxClassNameLen}}

\* every style input with the content inputs left out
StyleConfigurations ==
    {Config(v, s, fw, Absent, Absent, Absent, Absent, Word("Save"), cn, Absent, Absent, Absent) :
        v \in {Absent} \cup {Word(k) : k \in KnownVariants \cup {"unknown-value", "constructor"}},
        s \in {Absent} \cup {Word(k) : k \in KnownSizes \cup {"unknown-value", "toString"}},
        fw \in {Absent, JSBool(FALSE), JSBool(TRUE)},
        cn \in {Absent} \cup ClassNames}

\* every content input with the style inputs left out
ContentConfigurations ==
    {Config(Absent, Absent, Absent, l, d, li, ri, ch, Absent, Absent, Absent, Absent) :
        l \in {Absent, JSBool(FALSE), JSBool(TRUE)},
        d \in {Absent, JSBool(TRUE)},
        li \in {Absent, JSNull, Icon("left"), JSNumber("0")},
        ri \in {Absent, JSNull, Icon("right"), JSNumber("0")},
        ch \in {Absent, Word("Save"), Icon("label")}}

AllConfigurations == StyleConfigurations \cup ContentConfigurations

\* the configurations a parent moves between across re-renders
Configurations ==
    {Config(v, s, fw, l, d, Icon("left"), Absent, Word("Save"), cn, t, id, Absent) :
        v \in {Absent, Word("danger")},
        s \in {Absent, Word("lg")},
        fw \in {Absent, JSBool(TRUE)},
        l \in {Absent, JSBool(TRUE)},
        d \in {Absent, JSBool(TRUE)},
        cn \in {Absent, Word("m-2")},
        t \in {Absent, Word("submit")},
        id \in {Absent, Word("save")}}

----------------------------------------------------------------------------
(* The instance's life *)

NoElement == [type |-> "none", props |-> [n \in {} |-> JSUndefined], children |-> <<>>]

Mounted == hooks # <<>>

\* the first render pass of the instance, with the props it was created with
Mount ==
    /\ ~Mounted
    /\ LET r == Render(props, <<>>)
       IN  /\ hooks' = r.hooks
           /\ element' = r.element
           /\ reused' = r.reused
    /\ UNCHANGED props

\* a later render pass: the parent re-renders with props p
Update(p) ==
    /\ Mounted
    /\ props' = p
    /\ LET r == Render(p, hooks)
       IN  /\ hooks' = r.hooks
           /\ element' = r.element
           /\ reused' = r.reused

Rerender == \E p \in Configurations : Update(p)

Unmounted ==
    /\ hooks = <<>>
    /\ element = NoElement
    /\ reused = <<FALSE, FALSE>>

Init == props \in Configurations /\ Unmounted

Next == Mount \/ Rerender

Spec == Init /\ [][Next]_vars

\* a single render pass from every configuration
InitMount == props \in AllConfigurations /\ Unmounted

NextMount == Mount

SpecMount == InitMount /\ [][NextMount]_vars

----------------------------------------------------------------------------
(* Vocabulary of the properties *)

IsTrue(v) == v = JSBool(TRUE)

\* the key a variant or size prop selects: the default when absent
KeyOf(v, default) == IF v = Absent THEN default ELSE v.val[1]

\* the fragments fs (atom sequences), empty ones dropped, joined by single spaces
RECURSIVE Fragments(_)
Fragments(fs) ==
    IF fs = <<>> THEN <<>>
    ELSE IF Head(fs) = <<>> THEN Fragments(Tail(fs))
    ELSE IF Fragments(Tail(fs)) = <<>> THEN Head(fs)
    ELSE Head(fs) \o <<SP>> \o Fragments(Tail(fs))

\* the fragment a table holds for a recognized key, none for any other key
Fragment(table, key) == IF key \in DOMAIN table THEN table[key] ELSE <<>>

FullWidthFragment == IF IsTrue(props.fullWidth) THEN <<"w-full">> ELSE <<>>

GivenClassName == IF props.className = Absent THEN <<>> ELSE props.className.val

\* no empty token: no leading, trailing or doubled space
NoEmptyToken(s) ==
    /\ s # <<>> => s[1] # SP /\ s[Len(s)] # SP
    /\ \A i \in 1..(Len(s) - 1) : ~(s[i] = SP /\ s[i + 1] = SP)

IsSlot(node, slot) ==
    /\ node.type = "element"
    /\ Len(node.val) >= 2
    /\ node.val[1] = "span"
    /\ node.val[2] = slot

Present(v) == v \notin {Absent, JSNull}

LeftIcon == Default(props.leftIcon, JSNull)
RightIcon == Default(props.rightIcon, JSNull)
ChildrenSlot == Span("children", props.children)

\* the slot of an icon that is present, nothing for an absent one
IconSlot(slot, v) == IF Present(v) THEN <<Span(slot, v)>> ELSE <<>>

----------------------------------------------------------------------------
(* C1 *)

\* C1: in every render the disabled attribute of the button is true iff the
\* disabled input is true or the loading input is true.
C1_DisabledIffDisabledOrLoading ==
    Mounted =>
        element.props.disabled = JSBool(IsTrue(props.disabled) \/ IsTrue(props.loading))

C1_Witness ==
    /\ Mounted
    /\ ~IsTrue(props.disabled)
    /\ IsTrue(props.loading)
    /\ element.props.disabled = JSBool(TRUE)

----------------------------------------------------------------------------
(* C2 *)

\* C2: for a known variant, a known size, any fullWidth and a non-empty
\* className, the class string is base, variant fragment, size fragment, the
\* full-width fragment iff fullWidth is true, className, in that order, joined
\* by single spaces.
C2_StyleStringOrder ==
    (/\ Mounted
     /\ KeyOf(props.variant, "primary") \in KnownVariants
     /\ KeyOf(props.size, "md") \in KnownSizes
     /\ GivenClassName # <<>>)
    => element.props.className =
          JSString(BASE_STYLES \o <<SP>>
                   \o VARIANT_STYLES[KeyOf(props.variant, "primary")] \o <<SP>>
                   \o SIZE_STYLES[KeyOf(props.size, "md")] \o <<SP>>
                   \o (IF IsTrue(props.fullWidth) THEN <<"w-full", SP>> ELSE <<>>)
                   \o GivenClassName)

C2_Witness ==
    /\ Mounted
    /\ props.variant = Word("danger")
    /\ props.size = Word("lg")
    /\ IsTrue(props.fullWidth)
    /\ props.className = Word("m-2")
    /\ element.props.className =
          JSString(BASE_STYLES \o <<SP>> \o VARIANT_STYLES.danger \o <<SP>>
                   \o SIZE_STYLES.lg \o <<SP, "w-full", SP, "m-2">>)

----------------------------------------------------------------------------
(* C3 *)

\* C3: while loading is true neither icon appears in the composed content,
\* in a slot or bare, whatever the icons are.
C3_NoIconsWhileLoading ==
    (Mounted /\ IsTrue(props.loading)) =>
        \A i \in DOMAIN Content(element) :
            /\ ~IsSlot(Content(element)[i], "leftIcon")
            /\ ~IsSlot(Content(element)[i], "rightIcon")
            /\ Content(element)[i] \notin {LeftIcon, RightIcon}

C3_Witness ==
    /\ Mounted
    /\ IsTrue(props.loading)
    /\ props.leftIcon = Icon("left")
    /\ props.rightIcon = Icon("right")
    /\ Content(element) = <<Spinner, ChildrenSlot>>

----------------------------------------------------------------------------
(* C4 *)

\* C4: while loading is false the composed content is exactly the leftIcon
\* slot iff leftIcon is present, the children slot, the rightIcon slot iff
\* rightIcon is present, in that order.
C4_ContentWhenNotLoading ==
    (Mounted /\ ~IsTrue(props.loading)) =>
        Content(element) =
            IconSlot("leftIcon", LeftIcon) \o <<ChildrenSlot>>
            \o IconSlot("rightIcon", RightIcon)

----------------------------------------------------------------------------
(* C5 *)

\* C5 as claimed: the composed content is [loading-indicator] when loading is
\* true and [leftIcon?, children, rightIcon?] when it is false.
C5_TwoShapesAsClaimed ==
    Mounted =>
        Content(element) =
            IF IsTrue(props.loading) THEN <<Spinner>>
            ELSE IconSlot("leftIcon", LeftIcon) \o <<ChildrenSlot>>
                 \o IconSlot("rightIcon", RightIcon)

\* what an icon contributes when loading is false: its slot when it is truthy,
\* the bare number when it is a falsy number, nothing otherwise
IconNodes(slot, v) ==
    IF ToBoolean(v) THEN <<Span(slot, v)>>
    ELSE IF v.type = "number" THEN <<v>>
    ELSE <<>>

\* C5, amended: the composed content is [loading-indicator, children] when
\* loading is true; when it is false it is [leftIcon?, children, rightIcon?],
\* an icon slot standing iff the icon is truthy and a falsy number icon
\* standing bare in its place.
C5_TwoShapes ==
    Mounted =>
        Content(element) =
            IF IsTrue(props.loading) THEN <<Spinner, ChildrenSlot>>
            ELSE IconNodes("leftIcon", LeftIcon) \o <<ChildrenSlot>>
                 \o IconNodes("rightIcon", RightIcon)

C5_Witness ==
    /\ Mounted
    /\ IsTrue(props.loading)
    /\ props.leftIcon = Icon("left")
    /\ props.children = Word("Save")
    /\ Content(element) = <<Spinner, Span("children", Word("Save"))>>

----------------------------------------------------------------------------
(* C6 *)

\* C6: in every render the children slot stands exactly once in the composed
\* content, whatever loading, the icons and the children are.
C6_ChildrenSlotOnce ==
    Mounted =>
        /\ Cardinality({i \in DOMAIN Content(element) :
                            IsSlot(Content(element)[i], "children")}) = 1
        /\ \E i \in DOMAIN Content(element) : Content(element)[i] = ChildrenSlot

C6_Witness ==
    /\ Mounted
    /\ IsTrue(props.loading)
    /\ props.children = Absent
    /\ props.leftIcon = Icon("left")
    /\ Content(element)[2] = Span("children", JSUndefined)

----------------------------------------------------------------------------
(* C7 *)

\* C7: for a variant that is not one of the nine recognized ones, and for a
\* size that is not one of the five, the class string leaves that fragment out
\* and keeps every other fragment in order.
C7_UnknownKeyOmitted ==
    (/\ Mounted
     /\ \/ KeyOf(props.variant, "primary") \notin KnownVariants
        \/ KeyOf(props.size, "md") \notin KnownSizes)
    => element.props.className =
          JSString(Fragments(<<BASE_STYLES,
                               Fragment(VARIANT_STYLES, KeyOf(props.variant, "primary")),
                               Fragment(SIZE_STYLES, KeyOf(props.size, "md")),
                               FullWidthFragment,
                               GivenClassName>>))

----------------------------------------------------------------------------
(* C8 *)

\* C8: for every variant, size, fullWidth and className, the empty string and
\* strings of spaces included, the class string has no empty token.
C8_NoEmptyToken ==
    Mounted => NoEmptyToken(element.props.className.val)

----------------------------------------------------------------------------
(* C9 *)

\* the class string and the flag an unmemoized computation gives for props raw
FreshClassName(raw) ==
    LET p == Destructure(raw)
    IN  ButtonClassName(p.variant, p.size, p.fullWidth, p.className)

FreshDisabled(raw) ==
    LET p == Destructure(raw)
    IN  IsDisabled(p.disabled, p.loading)

\* the values the latest pass used are the fresh ones for its props
NothingStale ==
    Mounted =>
        /\ hooks[1].value = FreshClassName(props)
        /\ element.props.className = FreshClassName(props)
        /\ hooks[2].value = FreshDisabled(props)
        /\ element.props.disabled = FreshDisabled(props)

\* a pass reuses a cached value only when no input of that value changed
ReusedOnlyWhenUnchanged ==
    LET old == Destructure(props)
        new == Destructure(props')
    IN  /\ reused'[1] =>
              /\ Mounted
              /\ new.variant = old.variant
              /\ new.size = old.size
              /\ new.fullWidth = old.fullWidth
              /\ new.className = old.className
        /\ reused'[2] =>
              /\ Mounted
              /\ new.disabled = old.disabled
              /\ new.loading = old.loading

\* C9: over any sequence of render passes with changing props, the memoized
\* class string and disabled flag of each pass equal what a fresh computation
\* from that pass's props gives, and a cached value is reused only when none
\* of its inputs changed.
C9_MemoNeverStale == []NothingStale /\ [][ReusedOnlyWhenUnchanged]_vars

C9_Witness ==
    /\ Mounted
    /\ reused = <<TRUE, FALSE>>
    /\ props.className = Word("m-2")
    /\ IsTrue(props.loading)
    /\ element.props.className = FreshClassName(props)
    /\ element.props.disabled = JSBool(TRUE)

----------------------------------------------------------------------------
(* C10 *)

GivenPassthrough == {n \in PassthroughNames : props[n] # Absent}

\* C10: whatever passthrough attributes the caller gives, the class string,
\* the type and the disabled attribute of the button are the resolved values,
\* and the attributes are exactly those three and the passthrough attributes,
\* each unchanged.
C10_PassthroughCannotOverride ==
    Mounted =>
        /\ element.props.className = FreshClassName(props)
        /\ element.props.type = Default(props.type, Word("button"))
        /\ element.props.disabled =
              JSBool(IsTrue(props.disabled) \/ IsTrue(props.loading))
        /\ DOMAIN element.props = {"className", "type", "disabled"} \cup GivenPassthrough
        /\ \A n \in GivenPassthrough : element.props[n] = props[n]

C10_Witness ==
    /\ Mounted
    /\ props.className = Word("m-2")
    /\ props.type = Word("submit")
    /\ props.id = Word("save")
    /\ element.props.id = Word("save")
    /\ element.props.type = Word("submit")

====
